---- MODULE Spec2Model ----
(***************************************************************************)
(* Model of src/theme/plugin.js, the design-token to CSS-variable plugin:  *)
(* resolveColorReference, processShadowValue, flattenTokens,               *)
(* resolveCSSReferences, generateCSSVariables and the generateCSS / main   *)
(* pipeline.                                                               *)
(*                                                                         *)
(* JavaScript strings are sequences of one-character strings, so that      *)
(* startsWith, endsWith, slice, split, includes and the regular expression *)
(* of resolveCSSReferences are computed and not assumed.  A JavaScript     *)
(* value is a record [kind, val]; an object's val is the sequence of its   *)
(* own properties [k, v] in the order Object.entries enumerates them.      *)
(***************************************************************************)
EXTENDS Integers, Sequences, FiniteSets

VARIABLES
  pc,         \* where the run stands
  allTokens,  \* the token store handed to the resolvers
  value,      \* the argument of resolveColorReference / processShadowValue
  document,   \* a token file as written: members in source order
  tokens,     \* the parsed token file
  prefix,     \* the prefix flattenTokens is called with
  flattened,  \* the object flattenTokens returns
  css,        \* the css text
  returned,   \* the value a call returned
  warnings,   \* what console.warn was given, in order
  error       \* the error thrown, or "none"

vars == <<pc, allTokens, value, document, tokens, prefix, flattened, css,
          returned, warnings, error>>

(***************************************************************************)
(* JavaScript values                                                       *)
(***************************************************************************)
Str(s) == [kind |-> "str", val |-> s]
Num(n) == [kind |-> "num", val |-> n]
Bool(b) == [kind |-> "bool", val |-> b]
Null == [kind |-> "null", val |-> 0]
Undefined == [kind |-> "undefined", val |-> 0]
Obj(entries) == [kind |-> "obj", val |-> entries]
Arr(items) == [kind |-> "arr", val |-> items]
Prop(key, v) == [k |-> key, v |-> v]

\* The property names the plugin reads.
KType == <<"$", "t", "y", "p", "e">>
KValue == <<"$", "v", "a", "l", "u", "e">>
KLength == <<"l", "e", "n", "g", "t", "h">>
KOffsetX == <<"o", "f", "f", "s", "e", "t", "X">>
KOffsetY == <<"o", "f", "f", "s", "e", "t", "Y">>
KBlur == <<"b", "l", "u", "r">>
KSpread == <<"s", "p", "r", "e", "a", "d">>
KColor == <<"c", "o", "l", "o", "r">>
TColor == <<"c", "o", "l", "o", "r">>
TShadow == <<"s", "h", "a", "d", "o", "w">>

Digits == <<"0", "1", "2", "3", "4", "5", "6", "7", "8", "9">>
IsDigit(c) == \E i \in 1..10 : Digits[i] = c
DigitVal(c) == (CHOOSE i \in 1..10 : Digits[i] = c) - 1

\* ToBoolean: what `!x`, `x && y` and `x || y` test.
Truthy(v) ==
  CASE v.kind = "str" -> v.val # <<>>
    [] v.kind = "num" -> v.val # 0
    [] v.kind = "bool" -> v.val
    [] v.kind \in {"null", "undefined"} -> FALSE
    [] OTHER -> TRUE

\* A canonical array index: "0", or digits without a leading zero.
IsArrayIndex(s) ==
  /\ Len(s) >= 1
  /\ \A i \in 1..Len(s) : IsDigit(s[i])
  /\ (Len(s) > 1 => s[1] # "0")

RECURSIVE IndexVal(_)
IndexVal(s) ==
  IF s = <<>> THEN 0
  ELSE 10 * IndexVal(SubSeq(s, 1, Len(s) - 1)) + DigitVal(s[Len(s)])

HasOwn(o, key) == \E i \in 1..Len(o.val) : o.val[i].k = key
OwnValue(o, key) == o.val[CHOOSE i \in 1..Len(o.val) : o.val[i].k = key].v

\* x[key] on a value that is neither null nor undefined (prototype members
\* other than length are outside the alphabet of the model).
Get(x, key) ==
  CASE x.kind = "obj" -> IF HasOwn(x, key) THEN OwnValue(x, key) ELSE Undefined
    [] x.kind = "arr" ->
         IF IsArrayIndex(key) /\ IndexVal(key) < Len(x.val)
         THEN x.val[IndexVal(key) + 1]
         ELSE IF key = KLength THEN Num(Len(x.val)) ELSE Undefined
    [] x.kind = "str" ->
         IF IsArrayIndex(key) /\ IndexVal(key) < Len(x.val)
         THEN Str(<<x.val[IndexVal(key) + 1]>>)
         ELSE IF key = KLength THEN Num(Len(x.val)) ELSE Undefined
    [] OTHER -> Undefined

\* String.prototype.startsWith / endsWith with a one-character argument.
StartsWithChar(s, c) == Len(s) >= 1 /\ s[1] = c
EndsWithChar(s, c) == Len(s) >= 1 /\ s[Len(s)] = c
Includes(s, c) == \E i \in 1..Len(s) : s[i] = c

\* String.prototype.split with a one-character separator.
RECURSIVE Split(_, _)
Split(s, sep) ==
  IF ~Includes(s, sep) THEN <<s>>
  ELSE LET i == CHOOSE j \in 1..Len(s) :
                  s[j] = sep /\ \A h \in 1..(j - 1) : s[h] # sep
       IN <<SubSeq(s, 1, i - 1)>> \o Split(SubSeq(s, i + 1, Len(s)), sep)

\* Array.prototype.join on an array of strings.
RECURSIVE Join(_, _)
Join(parts, sep) ==
  IF parts = <<>> THEN <<>>
  ELSE IF Len(parts) = 1 THEN parts[1]
  ELSE parts[1] \o sep \o Join(Tail(parts), sep)

(***************************************************************************)
(* resolveColorReference                                                   *)
(***************************************************************************)
MaxDepth == 10

Warn(kind, arg, path) == [kind |-> kind, arg |-> arg, path |-> path]

\* An off-by-one ceiling: the call at depth MaxDepth already gives up.
DepthExceededOffByOne(depth) == depth >= MaxDepth

DepthExceeded(depth) == depth > MaxDepth

\* typeof value === "string" && value.startsWith("{") && value.endsWith("}")
IsBracketed(v) ==
  v.kind = "str" /\ StartsWithChar(v.val, "{") /\ EndsWithChar(v.val, "}")

\* value.slice(1): the closing brace stays in the reference.
StripBracesKeepsClosing(s) == SubSeq(s, 2, Len(s))

\* value.slice(1, -1)
StripBraces(s) == SubSeq(s, 2, Len(s) - 1)

\* The loop of lines 47-54: the first index whose segment is missing (falsy),
\* or the node the whole path leads to.
RECURSIVE WalkPath(_, _, _)
WalkPath(current, parts, i) ==
  IF i > Len(parts) THEN [found |-> TRUE, node |-> current, at |-> Len(parts)]
  ELSE IF ~Truthy(current) \/ ~Truthy(Get(current, parts[i]))
       THEN [found |-> FALSE, node |-> current, at |-> i]
       ELSE WalkPath(Get(current, parts[i]), parts, i + 1)

\* Lines 49-52: the warning carries the reference and the partial path, and the
\* value handed to this call is returned.
\* A resolver that fails closed: the unresolved reference is dropped.
NotFoundFailsClosed(v, reference, path) ==
  [ret |-> Undefined, warns |-> <<Warn("notfound", Str(reference), path)>>]

NotFoundResult(v, reference, path) ==
  [ret |-> v, warns |-> <<Warn("notfound", Str(reference), path)>>]

RECURSIVE resolveColorReference(_, _, _)
resolveColorReference(v, store, depth) ==
  IF DepthExceeded(depth)
  THEN [ret |-> v, warns |-> <<Warn("depth", v, <<>>)>>]
  ELSE IF ~IsBracketed(v) THEN [ret |-> v, warns |-> <<>>]
  ELSE
    LET reference == StripBraces(v.val)
        parts == Split(reference, ".")
        w == WalkPath(store, parts, 1)
        current == w.node
    IN IF ~w.found
       THEN NotFoundResult(v, reference, SubSeq(parts, 1, w.at))
       ELSE IF Truthy(current) /\ Truthy(Get(current, KValue))
       THEN resolveColorReference(Get(current, KValue), store, depth + 1)
       ELSE IF Truthy(current) /\ Get(current, KType) = Str(TColor)
       THEN [ret |-> Get(current, KValue), warns |-> <<>>]
       ELSE IF current.kind = "str"
       THEN resolveColorReference(current, store, depth + 1)
       ELSE [ret |-> v, warns |-> <<Warn("format", Str(reference), <<>>)>>]

(***************************************************************************)
(* Inputs of the reference resolver                                        *)
(***************************************************************************)
MaxChain == 13
NumLeaves == 2

Letter == <<"a", "b", "c", "d", "e", "f", "g", "h", "i", "j", "k", "l", "m",
            "n", "o", "q", "r", "s", "t", "u">>
TDimension == <<"d", "i", "m">>
LitWhite == <<"#", "f", "f", "f">>

Leaf(type, v) == Obj(<<Prop(KType, Str(type)), Prop(KValue, v)>>)
Ref(parts) == Str(<<"{">> \o Join(parts, <<".">>) \o <<"}">>)

\* a -> b -> ... -> the MaxChain-th leaf, which holds a literal.
ChainStore(lastType, lit) ==
  Obj([i \in 1..MaxChain |->
         Prop(<<Letter[i]>>,
              IF i < MaxChain THEN Leaf(TColor, Ref(<<<<Letter[i + 1]>>>>))
              ELSE Leaf(lastType, lit))])

ChainStores ==
  {ChainStore(t, l) : t \in {TColor, TDimension},
                      l \in {Str(LitWhite), Str(<<>>), Num(0), Num(5)}}

\* A group p of NumLeaves leaves that may reference one another, a missing
\* leaf, or hold a literal; s is a plain string that names a leaf.
LeafChoices ==
  {Leaf(t, v) : t \in {TColor, TDimension},
                v \in {Ref(<<<<"p">>, <<Letter[j]>>>>) : j \in 1..NumLeaves}
                      \cup {Ref(<<<<"p">>, <<"z">>>>), Str(LitWhite), Num(0)}}

GroupStore(f) ==
  Obj(<<Prop(<<"p">>, Obj([i \in 1..NumLeaves |-> Prop(<<Letter[i]>>, f[i])])),
        Prop(<<"s">>, Str(<<"{", "p", ".", "a", "}">>))>>)

GroupStores == {GroupStore(f) : f \in [1..NumLeaves -> LeafChoices]}

ChainValues == {Ref(<<<<Letter[i]>>>>) : i \in 1..MaxChain}
GroupValues ==
  {Ref(<<<<"p">>, <<Letter[j]>>>>) : j \in 1..NumLeaves}
    \cup {Ref(<<<<"s">>>>), Ref(<<<<"p">>>>), Ref(<<<<"z">>, <<"a">>>>),
          Str(LitWhite), Num(7)}

EmptyObj == Obj(<<>>)

InitResolve ==
  /\ pc = "call"
  /\ \/ allTokens \in ChainStores /\ value \in ChainValues
     \/ allTokens \in GroupStores /\ value \in GroupValues
  /\ document = EmptyObj
  /\ tokens = EmptyObj
  /\ prefix = <<>>
  /\ flattened = EmptyObj
  /\ css = <<>>
  /\ returned = Undefined
  /\ warnings = <<>>
  /\ error = "none"

\* A call resolveColorReference(value, allTokens) with the default depth 0.
CallResolveColorReference ==
  /\ pc = "call"
  /\ LET r == resolveColorReference(value, allTokens, 0)
     IN /\ returned' = r.ret
        /\ warnings' = r.warns
  /\ pc' = "returned"
  /\ UNCHANGED <<allTokens, value, document, tokens, prefix, flattened, css, error>>

NextResolve == CallResolveColorReference

SpecResolve == InitResolve /\ [][NextResolve]_vars

(***************************************************************************)
(* Claims about the reference resolver.  A chain is read off the store by  *)
(* the presence of fields: r leads to a leaf when its dotted path names,   *)
(* property by property, an object that has both a $type and a $value.     *)
(***************************************************************************)
Broken == [kind |-> "broken", val |-> 0]

RECURSIVE ClaimLookup(_, _, _)
ClaimLookup(node, parts, i) ==
  IF i > Len(parts) THEN node
  ELSE IF node.kind = "obj" /\ HasOwn(node, parts[i])
       THEN ClaimLookup(OwnValue(node, parts[i]), parts, i + 1)
       ELSE Broken

ClaimIsLeaf(node) ==
  node.kind = "obj" /\ HasOwn(node, KType) /\ HasOwn(node, KValue)

\* The dotted path a bracketed reference names.
ClaimInner(text) == SubSeq(text, 2, Len(text) - 1)

ClaimTarget(r, store) ==
  IF IsBracketed(r)
  THEN ClaimLookup(store, Split(ClaimInner(r.val), "."), 1)
  ELSE Broken

\* The value reached from r after following n references, or Broken.
RECURSIVE ClaimFollow(_, _, _)
ClaimFollow(r, store, n) ==
  IF n = 0 THEN r
  ELSE IF ClaimIsLeaf(ClaimTarget(r, store))
       THEN ClaimFollow(OwnValue(ClaimTarget(r, store), KValue), store, n - 1)
       ELSE Broken

ClaimIsLiteral(v) == v # Broken /\ ~IsBracketed(v)

DepthWarnings == SelectSeq(warnings, LAMBDA w : w.kind = "depth")
NotFoundWarnings == SelectSeq(warnings, LAMBDA w : w.kind = "notfound")

C2_LongChainReturnsOriginal ==
  pc = "returned" /\ ClaimFollow(value, allTokens, MaxDepth + 1) # Broken
    => returned = value /\ Len(DepthWarnings) = 1

\* C2 amended: a chain of more than 10 references resolves to the value handed
\* to the call at depth 11, which is the twelfth reference of the chain (or
\* the end literal of a chain of exactly 11 references), with exactly one
\* depth-exceeded diagnostic and no other; only when a chain of exactly 11
\* references ends in a falsy literal is the ceiling not reached at all.
C2_LongChainReturnsDepth11Value ==
  pc = "returned" /\ ClaimFollow(value, allTokens, MaxDepth + 1) # Broken
    => LET v11 == ClaimFollow(value, allTokens, MaxDepth + 1)
           v10 == ClaimFollow(value, allTokens, MaxDepth)
       IN IF Truthy(v11)
          THEN returned = v11 /\ warnings = <<Warn("depth", v11, <<>>)>>
          ELSE IF OwnValue(ClaimTarget(v10, allTokens), KType) = Str(TColor)
          THEN returned = v11 /\ warnings = <<>>
          ELSE /\ returned = v10
               /\ warnings = <<Warn("format", Str(ClaimInner(v10.val)), <<>>)>>

C2_Witness ==
  /\ pc = "returned"
  /\ ClaimFollow(value, allTokens, MaxDepth + 1) # Broken
  /\ IsBracketed(returned)
  /\ returned # value
  /\ Len(DepthWarnings) = 1

\* The partial path of a not-found diagnostic names a property that is absent.
ClaimAbsent(store, path) == ClaimLookup(store, path, 1) = Broken

MetMissingSegment ==
  /\ pc = "returned"
  /\ \E i \in 1..Len(warnings) :
       warnings[i].kind = "notfound" /\ ClaimAbsent(allTokens, warnings[i].path)

\* C10 as stated: when the walk of r, or of a reference reached from r, meets
\* an absent segment, the original reference string r is returned.
C10_MissingSegmentReturnsOriginal ==
  MetMissingSegment => returned = value /\ Len(NotFoundWarnings) = 1

\* C10 amended: the reference string whose own walk met the absent segment is
\* returned unchanged (r itself only when the segment is missing from r's own
\* path), with exactly one diagnostic, which names that reference and the
\* partial path walked; the token store is never written.
C10_MissingSegmentReturnsWalkedReference ==
  /\ [](MetMissingSegment =>
          /\ Len(warnings) = 1
          /\ returned = Str(<<"{">> \o warnings[1].arg.val \o <<"}">>)
          /\ warnings[1].path
               = SubSeq(Split(warnings[1].arg.val, "."), 1, Len(warnings[1].path))
          /\ (warnings[1].arg.val = ClaimInner(value.val) <=> returned = value))
  /\ [][allTokens' = allTokens]_vars

C10_Witness == MetMissingSegment /\ returned # value

(***************************************************************************)
(* processShadowValue                                                      *)
(***************************************************************************)
RECURSIVE NumToString(_)
NumToString(n) ==
  IF n < 10 THEN <<Digits[n + 1]>>
  ELSE NumToString(n \div 10) \o <<Digits[(n % 10) + 1]>>

\* ToString, as a template literal, String.prototype.replace and Array.join
\* apply it (numbers of the model are naturals).
RECURSIVE ToString(_)
ToString(v) ==
  CASE v.kind = "str" -> v.val
    [] v.kind = "num" -> NumToString(v.val)
    [] v.kind = "bool" ->
         IF v.val THEN <<"t", "r", "u", "e">> ELSE <<"f", "a", "l", "s", "e">>
    [] v.kind = "null" -> <<"n", "u", "l", "l">>
    [] v.kind = "undefined" -> <<"u", "n", "d", "e", "f", "i", "n", "e", "d">>
    [] v.kind = "arr" ->
         Join([i \in 1..Len(v.val) |->
                 IF v.val[i].kind \in {"null", "undefined"} THEN <<>>
                 ELSE ToString(v.val[i])], <<",">>)
    [] OTHER -> <<"[", "o", "b", "j", "e", "c", "t", " ", "O", "b", "j", "e",
                  "c", "t", "]">>

ZeroPx == <<"0", "p", "x">>
Transparent == <<"t", "r", "a", "n", "s", "p", "a", "r", "e", "n", "t">>
NoneText == <<"n", "o", "n", "e">>

\* shadow.f ?? dflt: only an absent (or null) field takes the default.
ShadowFieldNullish(shadow, key, dflt) ==
  IF Get(shadow, key).kind \in {"null", "undefined"} THEN Str(dflt)
  ELSE Get(shadow, key)

\* shadow.f || dflt
ShadowField(shadow, key, dflt) ==
  IF Truthy(Get(shadow, key)) THEN Get(shadow, key) ELSE Str(dflt)

\* The callback of value.map, lines 82-100.
RenderShadow(shadow) ==
  IF shadow.kind = "str" THEN shadow.val
  ELSE IF shadow.kind \in {"obj", "arr"}
  THEN LET offsetX == ShadowField(shadow, KOffsetX, ZeroPx)
           offsetY == ShadowField(shadow, KOffsetY, ZeroPx)
           blur == ShadowField(shadow, KBlur, ZeroPx)
           spread == ShadowField(shadow, KSpread, ZeroPx)
           color == ShadowField(shadow, KColor, Transparent)
       IN ToString(offsetX) \o <<" ">> \o ToString(offsetY) \o <<" ">>
            \o ToString(blur) \o <<" ">> \o ToString(spread) \o <<" ">>
            \o ToString(color)
  ELSE NoneText

processShadowValue(v) ==
  IF v.kind # "arr" THEN v
  ELSE Str(Join([i \in 1..Len(v.val) |-> RenderShadow(v.val[i])], <<",", " ">>))

(***************************************************************************)
(* Inputs of processShadowValue                                            *)
(***************************************************************************)
MaxShadows == 2

ShadowKeys == <<KOffsetX, KOffsetY, KBlur, KSpread, KColor>>
ShadowTruthy ==
  <<Str(<<"1", "p", "x">>), Str(<<"2", "p", "x">>), Num(4),
    Str(<<"3", "p", "x">>), Str(<<"r", "e", "d">>)>>
ShadowFalsy == <<Num(0), Str(<<>>), Null, Bool(FALSE), Str(<<>>)>>

\* Every shadow component: each field absent, truthy or present and falsy.
ShadowObject(c) ==
  LET present == SelectSeq(<<1, 2, 3, 4, 5>>, LAMBDA i : c[i] # "absent")
  IN Obj([j \in 1..Len(present) |->
            Prop(ShadowKeys[present[j]],
                 IF c[present[j]] = "truthy" THEN ShadowTruthy[present[j]]
                 ELSE ShadowFalsy[present[j]])])

ShadowObjects ==
  {ShadowObject(c) : c \in [1..5 -> {"absent", "truthy", "falsy"}]}

ShadowElements ==
  {Str(<<"i", "n", "s", "e", "t">>), Num(3), Null, Bool(TRUE), Arr(<<>>),
   ShadowObject(<<"truthy", "absent", "absent", "absent", "truthy">>),
   ShadowObject(<<"falsy", "truthy", "truthy", "truthy", "absent">>)}

RECURSIVE SeqsUpTo(_, _)
SeqsUpTo(S, n) ==
  IF n = 0 THEN {<<>>}
  ELSE LET shorter == SeqsUpTo(S, n - 1)
       IN shorter \cup {Append(q, x) : q \in shorter, x \in S}

ShadowValues ==
  {Arr(<<o>>) : o \in ShadowObjects}
    \cup {Arr(q) : q \in SeqsUpTo(ShadowElements, MaxShadows)}
    \cup {Str(NoneText), Num(0),
          ShadowObject(<<"truthy", "absent", "absent", "absent", "truthy">>)}

InitShadow ==
  /\ pc = "call"
  /\ value \in ShadowValues
  /\ allTokens = EmptyObj
  /\ document = EmptyObj
  /\ tokens = EmptyObj
  /\ prefix = <<>>
  /\ flattened = EmptyObj
  /\ css = <<>>
  /\ returned = Undefined
  /\ warnings = <<>>
  /\ error = "none"

CallProcessShadowValue ==
  /\ pc = "call"
  /\ returned' = processShadowValue(value)
  /\ pc' = "returned"
  /\ UNCHANGED <<allTokens, value, document, tokens, prefix, flattened, css,
                 warnings, error>>

NextShadow == CallProcessShadowValue

SpecShadow == InitShadow /\ [][NextShadow]_vars

(***************************************************************************)
(* Claims about processShadowValue                                         *)
(***************************************************************************)
\* When a field counts as given: "present" if the object has it, whatever it
\* holds; "truthy" if it has it and it holds a truthy value.
ClaimField(e, key, dflt, given) ==
  IF /\ e.kind = "obj"
     /\ HasOwn(e, key)
     /\ (given = "truthy" => Truthy(OwnValue(e, key)))
  THEN ToString(OwnValue(e, key))
  ELSE dflt

\* "offsetX offsetY blur spread color" with the documented defaults.
ClaimRender(e, given) ==
  IF e.kind = "str" THEN e.val
  ELSE IF e.kind \in {"obj", "arr"}
  THEN ClaimField(e, KOffsetX, ZeroPx, given) \o <<" ">>
         \o ClaimField(e, KOffsetY, ZeroPx, given) \o <<" ">>
         \o ClaimField(e, KBlur, ZeroPx, given) \o <<" ">>
         \o ClaimField(e, KSpread, ZeroPx, given) \o <<" ">>
         \o ClaimField(e, KColor, Transparent, given)
  ELSE NoneText

RECURSIVE ClaimCommaSpace(_, _)
ClaimCommaSpace(texts, n) ==
  IF n = 0 THEN <<>>
  ELSE IF n = 1 THEN texts[1]
  ELSE ClaimCommaSpace(texts, n - 1) \o <<",", " ">> \o texts[n]

ClaimShadowText(items, given) ==
  ClaimCommaSpace([i \in 1..Len(items) |-> ClaimRender(items[i], given)],
                  Len(items))

\* C8 as stated: the defaults stand in for the missing fields only.
C8_ShadowDefaultsForMissingFields ==
  pc = "returned" =>
    IF value.kind = "arr"
    THEN returned = Str(ClaimShadowText(value.val, "present"))
    ELSE returned = value

\* C8 amended: a list renders element by element, joined with ", " in list
\* order: a string unchanged, an object (or a nested list, which has none of
\* the fields) as "offsetX offsetY blur spread color" with "0px" / "transparent"
\* for each field that is missing or falsy (0, "", null, false), anything else
\* as "none"; a value that is not a list is returned verbatim.
C8_ShadowDefaultsForFalsyFields ==
  pc = "returned" =>
    IF value.kind = "arr"
    THEN returned = Str(ClaimShadowText(value.val, "truthy"))
    ELSE returned = value

C8_Witness ==
  /\ pc = "returned"
  /\ value = Arr(<<ShadowObject(<<"truthy", "absent", "absent", "absent", "truthy">>)>>)
  /\ returned = Str(<<"1", "p", "x", " ", "0", "p", "x", " ", "0", "p", "x", " ",
                      "0", "p", "x", " ", "r", "e", "d">>)

(***************************************************************************)
(* Objects as JavaScript keeps them: readTokenFile (JSON.parse) and every  *)
(* assignment result[newKey] = ... define properties one at a time, and    *)
(* Object.entries enumerates integer-indexed names first, in ascending     *)
(* numeric order, and then the other names in the order they were added.   *)
(***************************************************************************)
ReplaceOwn(o, key, v) ==
  Obj([i \in 1..Len(o.val) |-> IF o.val[i].k = key THEN Prop(key, v) ELSE o.val[i]])

\* An object that enumerates every name in the order it was added.
ObjSetInsertionOrder(o, key, v) ==
  IF HasOwn(o, key) THEN ReplaceOwn(o, key, v)
  ELSE Obj(Append(o.val, Prop(key, v)))

\* o[key] = v
ObjSet(o, key, v) ==
  IF HasOwn(o, key) THEN ReplaceOwn(o, key, v)
  ELSE IF IsArrayIndex(key)
  THEN LET before == SelectSeq(o.val, LAMBDA e :
                       IsArrayIndex(e.k) /\ IndexVal(e.k) < IndexVal(key))
           after == SelectSeq(o.val, LAMBDA e :
                       ~(IsArrayIndex(e.k) /\ IndexVal(e.k) < IndexVal(key)))
       IN Obj(before \o <<Prop(key, v)>> \o after)
  ELSE Obj(Append(o.val, Prop(key, v)))

\* JSON.parse of a document whose members are given in source order.
RECURSIVE JsonParse(_), ParseMembers(_, _, _)
JsonParse(d) ==
  CASE d.kind = "obj" -> ParseMembers(d.val, 1, Obj(<<>>))
    [] d.kind = "arr" -> Arr([i \in 1..Len(d.val) |-> JsonParse(d.val[i])])
    [] OTHER -> d

ParseMembers(members, i, acc) ==
  IF i > Len(members) THEN acc
  ELSE ParseMembers(members, i + 1,
                    ObjSet(acc, members[i].k, JsonParse(members[i].v)))

\* Object.entries
Entries(x) ==
  IF x.kind = "arr"
  THEN [i \in 1..Len(x.val) |-> Prop(NumToString(i - 1), x.val[i])]
  ELSE x.val

\* Object.assign(target, source)
RECURSIVE AssignFrom(_, _, _)
AssignFrom(target, members, i) ==
  IF i > Len(members) THEN target
  ELSE AssignFrom(ObjSet(target, members[i].k, members[i].v), members, i + 1)

ObjectAssign(target, source) == AssignFrom(target, Entries(source), 1)

(***************************************************************************)
(* flattenTokens and generateCSSVariables                                  *)
(***************************************************************************)
\* prefix ? `${prefix}-${key}` : key
NewKey(pre, key) == IF pre # <<>> THEN pre \o <<"-">> \o key ELSE key

\* Lines 110-117: the value a token is entered with.
EmitToken(acc, newKey, node, store) ==
  IF Get(node, KType) = Str(TColor)
  THEN LET r == resolveColorReference(Get(node, KValue), store, 0)
       IN [acc EXCEPT !.result = ObjSet(acc.result, newKey, r.ret),
                      !.warns = acc.warns \o r.warns]
  ELSE IF Get(node, KType) = Str(TShadow)
  THEN [acc EXCEPT !.result =
          ObjSet(acc.result, newKey, processShadowValue(Get(node, KValue)))]
  ELSE [acc EXCEPT !.result = ObjSet(acc.result, newKey, Get(node, KValue))]

\* acc is the accumulator `result`, with the warnings given so far and the
\* error thrown, if any: reading .$type of null throws a TypeError, which
\* ends the traversal.
RECURSIVE flattenTokens(_, _, _, _), FlattenEntries(_, _, _, _, _)
flattenTokens(toks, pre, acc, store) ==
  FlattenEntries(Entries(toks), 1, pre, acc, store)

FlattenEntries(members, i, pre, acc, store) ==
  IF acc.error # "none" \/ i > Len(members) THEN acc
  ELSE
    LET node == members[i].v
        newKey == NewKey(pre, members[i].k)
    IN IF node.kind \in {"null", "undefined"}
       THEN [acc EXCEPT !.error = "TypeError"]
       ELSE IF Truthy(Get(node, KType)) /\ Truthy(Get(node, KValue))
       THEN FlattenEntries(members, i + 1, pre,
                           EmitToken(acc, newKey, node, store), store)
       ELSE IF node.kind \in {"obj", "arr"}
       THEN FlattenEntries(members, i + 1, pre,
                           flattenTokens(node, newKey, acc, store), store)
       ELSE FlattenEntries(members, i + 1, pre, acc, store)

\* css += `  --${key}: ${value};\n`
CssLine(key, v) ==
  <<" ", " ", "-", "-">> \o key \o <<":", " ">> \o ToString(v) \o <<";", "\n">>

RECURSIVE CssLines(_, _)
CssLines(members, i) ==
  IF i > Len(members) THEN <<>>
  ELSE CssLine(members[i].k, members[i].v) \o CssLines(members, i + 1)

generateCSSVariables(toks) == CssLines(Entries(toks), 1)

(***************************************************************************)
(* Token files                                                             *)
(***************************************************************************)
MaxEntries == 2

ShadowList ==
  Arr(<<ShadowObject(<<"truthy", "absent", "absent", "absent", "truthy">>)>>)

\* The nodes of an already-flat namespace: leaves of every type, with truthy
\* and falsy values, and the malformed nodes a token file may hold.
FlatNodes ==
  {Leaf(TColor, Str(LitWhite)), Leaf(TColor, Ref(<<<<"a">>>>)),
   Leaf(TColor, Str(<<>>)), Leaf(TDimension, Num(0)), Leaf(TDimension, Num(4)),
   Leaf(TShadow, ShadowList), Num(42), Str(<<"x">>), Bool(TRUE), Null}

\* Nested namespaces, as written: shades out of numeric order, a malformed
\* member between leaves, an array of leaves.
NestedNodes ==
  {Obj(<<Prop(<<"9">>, Leaf(TColor, Str(LitWhite))),
         Prop(<<"c">>, Leaf(TDimension, Num(4))),
         Prop(<<"5", "0">>, Leaf(TColor, Str(LitWhite)))>>),
   Obj(<<Prop(<<"c">>, Leaf(TColor, Str(LitWhite))),
         Prop(<<"d">>, Num(42)),
         Prop(<<"e">>, Obj(<<Prop(<<"f">>, Leaf(TDimension, Num(4)))>>))>>),
   Arr(<<Leaf(TColor, Str(LitWhite)), Leaf(TDimension, Num(4))>>)}

OrderKeys == {<<"a">>, <<"b">>, <<"5", "0">>, <<"9">>}

DistinctKeySeqs ==
  {q \in SeqsUpTo(OrderKeys, MaxEntries) :
     \A i, j \in 1..Len(q) : i # j => q[i] # q[j]}

FlatDocuments ==
  {Obj([i \in 1..Len(q) |-> Prop(<<Letter[i]>>, q[i])]) :
     q \in SeqsUpTo(FlatNodes, MaxEntries)}

OrderedDocuments ==
  {Obj([i \in 1..Len(kn[1]) |-> Prop(kn[1][i], kn[2][i])]) :
     kn \in {x \in DistinctKeySeqs
                     \X SeqsUpTo({Leaf(TColor, Str(LitWhite))} \cup NestedNodes,
                                 MaxEntries) :
               Len(x[1]) = Len(x[2])}}

Documents == FlatDocuments \cup OrderedDocuments

Prefixes == {<<>>, <<"s", "e", "t">>}

NoResult == [result |-> EmptyObj, warns |-> <<>>, error |-> "none"]

InitFlatten ==
  /\ pc = "read"
  /\ document \in Documents
  /\ prefix \in Prefixes
  /\ allTokens = EmptyObj
  /\ value = Undefined
  /\ tokens = EmptyObj
  /\ flattened = EmptyObj
  /\ css = <<>>
  /\ returned = Undefined
  /\ warnings = <<>>
  /\ error = "none"

\* readTokenFile, and loadAllTokens merging the file into the store.
ReadTokenFile ==
  /\ pc = "read"
  /\ tokens' = JsonParse(document)
  /\ allTokens' = ObjectAssign(EmptyObj, JsonParse(document))
  /\ pc' = "parsed"
  /\ UNCHANGED <<value, document, prefix, flattened, css, returned, warnings,
                 error>>

\* const flattenedTokens = flattenTokens(tokens, prefix, {}, allTokens)
CallFlattenTokens ==
  /\ pc = "parsed"
  /\ LET r == flattenTokens(tokens, prefix, NoResult, allTokens)
     IN /\ warnings' = r.warns
        /\ error' = r.error
        /\ IF r.error = "none"
           THEN flattened' = r.result /\ pc' = "flattened"
           ELSE flattened' = flattened /\ pc' = "thrown"
  /\ UNCHANGED <<allTokens, value, document, tokens, prefix, css, returned>>

\* css += generateCSSVariables(flattenedTokens)
CallGenerateCSSVariables ==
  /\ pc = "flattened"
  /\ css' = generateCSSVariables(flattened)
  /\ pc' = "generated"
  /\ UNCHANGED <<allTokens, value, document, tokens, prefix, flattened,
                 returned, warnings, error>>

NextFlatten ==
  \/ ReadTokenFile
  \/ CallFlattenTokens
  \/ CallGenerateCSSVariables

SpecFlatten == InitFlatten /\ [][NextFlatten]_vars

(***************************************************************************)
(* Claims about flattenTokens                                              *)
(***************************************************************************)
FlattenReturned == pc \in {"flattened", "thrown"}

ClaimIsScalar(node) == node.kind \in {"num", "str", "bool", "null"}

\* What the materializer gives for a leaf of each type.
ClaimMaterialize(leaf) ==
  LET type == OwnValue(leaf, KType)
      raw == JsonParse(OwnValue(leaf, KValue))
  IN IF type = Str(TColor) THEN resolveColorReference(raw, allTokens, 0).ret
     ELSE IF type = Str(TShadow) THEN processShadowValue(raw)
     ELSE raw

LeafMembers(doc) == SelectSeq(doc.val, LAMBDA m : ClaimIsLeaf(m.v))

\* C3: flattening a namespace of leaves (no nested namespace), with an empty
\* prefix, gives exactly one entry per leaf, under the leaf's own name,
\* whatever the leaf's value is.
C3_FlatNamespaceOneEntryPerLeaf ==
  (/\ FlattenReturned
   /\ prefix = <<>>
   /\ \A i \in 1..Len(document.val) :
        ClaimIsLeaf(document.val[i].v)
          \/ document.val[i].v.kind \in {"num", "str", "bool"})
  => /\ error = "none"
     /\ Len(flattened.val) = Len(LeafMembers(document))
     /\ \A i \in 1..Len(document.val) :
          ClaimIsLeaf(document.val[i].v) =>
            /\ HasOwn(flattened, document.val[i].k)
            /\ OwnValue(flattened, document.val[i].k)
                 = ClaimMaterialize(document.val[i].v)

\* C4: flattenTokens raises no error, a node that is a number, a string, a
\* boolean or null gives no output key, and the well-formed leaves beside it
\* are emitted.
C4_MalformedNodesSkipped ==
  FlattenReturned =>
    /\ error = "none"
    /\ \A i \in 1..Len(document.val) :
         LET node == document.val[i].v
             key == NewKey(prefix, document.val[i].k)
         IN /\ ClaimIsScalar(node) => ~HasOwn(flattened, key)
            /\ (/\ ClaimIsLeaf(node)
                /\ Truthy(OwnValue(node, KType))
                /\ Truthy(OwnValue(node, KValue))) => HasOwn(flattened, key)

RECURSIVE ClaimSortedIndexKeys(_)
ClaimSortedIndexKeys(S) ==
  IF S = {} THEN <<>>
  ELSE LET least == CHOOSE k \in S : \A j \in S : IndexVal(k) <= IndexVal(j)
       IN <<least>> \o ClaimSortedIndexKeys(S \ {least})

KeysOf(members) == [i \in 1..Len(members) |-> members[i].k]

\* Integer-indexed names first, ascending, then the others as given.
ClaimEnumerated(keys) ==
  ClaimSortedIndexKeys({keys[i] : i \in {j \in 1..Len(keys) : IsArrayIndex(keys[j])}})
    \o SelectSeq(keys, LAMBDA k : ~IsArrayIndex(k))

\* The members in the order they are visited: as written in the source
\* document, or as JavaScript enumerates them.
ClaimVisitOrder(members, order) ==
  IF order = "written" THEN members
  ELSE LET keys == ClaimEnumerated(KeysOf(members))
       IN [i \in 1..Len(keys) |->
             members[CHOOSE j \in 1..Len(members) : members[j].k = keys[i]]]

\* Every flat key of a namespace, depth first.
RECURSIVE ClaimKeys(_, _, _, _)
ClaimKeys(members, i, pre, order) ==
  IF i > Len(members) THEN <<>>
  ELSE LET m == ClaimVisitOrder(members, order)[i]
           key == NewKey(pre, m.k)
       IN <<key>>
            \o (IF m.v.kind \in {"obj", "arr"}
                THEN ClaimKeys(Entries(m.v), 1, key, order)
                ELSE <<>>)
            \o ClaimKeys(members, i + 1, pre, order)

RECURSIVE ClaimFirstOccurrences(_)
ClaimFirstOccurrences(keys) ==
  IF keys = <<>> THEN <<>>
  ELSE LET front == ClaimFirstOccurrences(SubSeq(keys, 1, Len(keys) - 1))
           last == keys[Len(keys)]
       IN IF \E i \in 1..Len(front) : front[i] = last THEN front
          ELSE Append(front, last)

Emitted(keys) == SelectSeq(keys, LAMBDA k : HasOwn(flattened, k))

RECURSIVE ClaimCss(_, _)
ClaimCss(keys, i) ==
  IF i > Len(keys) THEN <<>>
  ELSE CssLine(keys[i], OwnValue(flattened, keys[i])) \o ClaimCss(keys, i + 1)

WrittenOrder ==
  Emitted(ClaimFirstOccurrences(ClaimKeys(document.val, 1, prefix, "written")))

EnumeratedOrder ==
  Emitted(ClaimEnumerated(ClaimFirstOccurrences(
            ClaimKeys(document.val, 1, prefix, "enumerated"))))

\* C5 as stated: the flattened keys, and the css lines made of them, are in
\* the depth-first order of the source document, every namespace visited in
\* the order its members were written, digit-string names included.
C5_OutputInSourceOrder ==
  pc = "generated" =>
    /\ KeysOf(flattened.val) = WrittenOrder
    /\ css = ClaimCss(WrittenOrder, 1)

\* C5 amended: the flattened keys, and the css lines made of them, are in
\* depth-first order where each namespace, and the flattened output itself,
\* lists the names that are canonical array indices ("50", "900") first, in
\* ascending numeric order, and the other names in the order in which they
\* were written (a flat key emitted twice keeps its first place).
C5_OutputInEnumerationOrder ==
  pc = "generated" =>
    /\ KeysOf(flattened.val) = EnumeratedOrder
    /\ css = ClaimCss(EnumeratedOrder, 1)

C5_Witness ==
  /\ pc = "generated"
  /\ Len(flattened.val) >= 3
  /\ WrittenOrder # EnumeratedOrder
  /\ \E i \in 1..Len(document.val) : document.val[i].k = <<"9">>

(***************************************************************************)
(* resolveCSSReferences.  Its recursion has no depth ceiling: a call nests *)
(* one level deeper for every reference whose value is again a reference,  *)
(* and the engine throws a RangeError once its call stack is exhausted.    *)
(* StackLimit is the number of nested calls the model's stack holds.       *)
(***************************************************************************)
StackLimit == 14

\* The end of a match of /\{([^{}]+)\}/ that starts at i, or 0: an opening
\* brace, at least one character that is no brace, a closing brace.
MatchEnd(text, i) ==
  IF text[i] # "{" THEN 0
  ELSE LET braces == {j \in (i + 1)..Len(text) : text[j] \in {"{", "}"}}
       IN IF braces = {} THEN 0
          ELSE LET j == CHOOSE b \in braces : \A c \in braces : b <= c
               IN IF text[j] = "}" /\ j > i + 1 THEN j ELSE 0

\* const [parent, child] = part.split("-")
DashPair(part) ==
  [parent |-> Split(part, "-")[1], child |-> Split(part, "-")[2]]

\* The loop of lines 136-150.
RECURSIVE CssWalk(_, _, _)
CssWalk(current, parts, i) ==
  IF i > Len(parts) THEN [found |-> TRUE, node |-> current]
  ELSE IF ~Truthy(current) \/ ~Truthy(Get(current, parts[i]))
  THEN IF /\ Includes(parts[i], "-")
          /\ Truthy(Get(current, DashPair(parts[i]).parent))
          /\ Truthy(Get(Get(current, DashPair(parts[i]).parent),
                        DashPair(parts[i]).child))
       THEN CssWalk(Get(Get(current, DashPair(parts[i]).parent),
                        DashPair(parts[i]).child), parts, i + 1)
       ELSE [found |-> FALSE, node |-> current]
  ELSE CssWalk(Get(current, parts[i]), parts, i + 1)

\* reference.startsWith("--")
StartsWithDashes(reference) ==
  Len(reference) >= 2 /\ reference[1] = "-" /\ reference[2] = "-"

Replaced(text) == [out |-> text, warns |-> <<>>, error |-> "none"]
Kept(match, kind, reference) ==
  [out |-> match, warns |-> <<Warn(kind, Str(reference), <<>>)>>, error |-> "none"]

RECURSIVE resolveCSSReferences(_, _, _), ReplaceAll(_, _, _, _),
          ReplaceReference(_, _, _, _)

\* The callback of css.replace, lines 130-181.
ReplaceReference(match, reference, store, frames) ==
  LET w == CssWalk(store, Split(reference, "."), 1)
      node == w.node
  IN IF ~w.found THEN Kept(match, "cssnotfound", reference)
     ELSE IF Truthy(node) /\ Get(node, KValue).kind # "undefined"
     THEN IF IsBracketed(Get(node, KValue))
          THEN resolveCSSReferences(Get(node, KValue).val, store, frames + 1)
          ELSE Replaced(ToString(Get(node, KValue)))
     ELSE IF StartsWithDashes(reference)
     THEN Replaced(<<"v", "a", "r", "(">> \o reference \o <<")">>)
     ELSE IF node.kind = "str"
     THEN IF IsBracketed(node)
          THEN resolveCSSReferences(node.val, store, frames + 1)
          ELSE Replaced(node.val)
     ELSE Kept(match, "cssformat", reference)

\* String.prototype.replace with the global flag: the matches from left to
\* right, each replaced by what the callback returns; an error thrown by the
\* callback ends the call.
ReplaceAll(text, i, store, frames) ==
  IF i > Len(text) THEN Replaced(<<>>)
  ELSE IF MatchEnd(text, i) = 0
  THEN LET rest == ReplaceAll(text, i + 1, store, frames)
       IN [rest EXCEPT !.out = <<text[i]>> \o rest.out]
  ELSE LET j == MatchEnd(text, i)
           r == ReplaceReference(SubSeq(text, i, j), SubSeq(text, i + 1, j - 1),
                                 store, frames)
       IN IF r.error # "none" THEN r
          ELSE LET rest == ReplaceAll(text, j + 1, store, frames)
               IN [out |-> r.out \o rest.out,
                   warns |-> r.warns \o rest.warns,
                   error |-> rest.error]

resolveCSSReferences(text, store, frames) ==
  IF frames > StackLimit
  THEN [out |-> <<>>, warns |-> <<>>, error |-> "RangeError"]
  ELSE ReplaceAll(text, 1, store, frames)

(***************************************************************************)
(* Texts and stores of the rewriter, and the end of generateCSS / main     *)
(***************************************************************************)
\* The group p of leaves, the plain string s, the namespace f with the leaf
\* f.b, and a plain string under a custom-property name.
CssStore(f) ==
  Obj(<<Prop(<<"p">>, Obj([i \in 1..NumLeaves |-> Prop(<<Letter[i]>>, f[i])])),
        Prop(<<"s">>, Str(<<"{", "p", ".", "a", "}">>)),
        Prop(<<"f">>, Obj(<<Prop(<<"b">>, Leaf(TColor, Str(LitWhite)))>>)),
        Prop(<<"-", "-", "y">>, Str(<<"1", "p", "x">>))>>)

CssStores == {CssStore(f) : f \in [1..NumLeaves -> LeafChoices]}

CssReferences ==
  {<<"p", ".", "a">>, <<"p", ".", "b">>, <<"s">>, <<"p">>, <<"z">>,
   <<"-", "-", "x">>, <<"-", "-", "y">>,
   <<"f", "-", "b">>, <<"f", "-", "b", "-", "z">>, <<"f", "-", "z">>,
   <<"f", ".", "b">>}

Braced(reference) == <<"{">> \o reference \o <<"}">>

\* A declaration `  --k: <text>;\n` as generateCSSVariables writes it.
Declaration(text) == CssLine(<<"k">>, Str(text))

CssTexts ==
  {Declaration(Braced(r)) : r \in CssReferences}
    \cup {Declaration(LitWhite),
          Declaration(<<"{", "}">>),
          Declaration(<<"{">> \o Braced(<<"f", ".", "b">>) \o <<"}">>),
          Declaration(Braced(<<"f", ".", "b">>) \o <<" ">> \o Braced(<<"z">>))}

InitCss ==
  /\ pc = "assembled"
  /\ allTokens \in CssStores
  /\ css \in CssTexts
  /\ value = Str(css)
  /\ document = EmptyObj
  /\ tokens = EmptyObj
  /\ prefix = <<>>
  /\ flattened = EmptyObj
  /\ returned = Undefined
  /\ warnings = <<>>
  /\ error = "none"

\* generateCSS, line 474: css = resolveCSSReferences(css, loadAllTokens(...))
CallResolveCSSReferences ==
  /\ pc = "assembled"
  /\ LET r == resolveCSSReferences(css, allTokens, 1)
     IN /\ warnings' = r.warns
        /\ error' = r.error
        /\ IF r.error = "none"
           THEN css' = r.out /\ pc' = "resolved"
           ELSE css' = css /\ pc' = "thrown"
  /\ UNCHANGED <<allTokens, value, document, tokens, prefix, flattened, returned>>

\* main, lines 533-534: the css generateCSS returned is written.
WriteCSS ==
  /\ pc = "resolved"
  /\ returned' = Str(css)
  /\ pc' = "written"
  /\ UNCHANGED <<allTokens, value, document, tokens, prefix, flattened, css,
                 warnings, error>>

\* main, lines 535-537: the error is logged and nothing is written.
CatchError ==
  /\ pc = "thrown"
  /\ pc' = "caught"
  /\ UNCHANGED <<allTokens, value, document, tokens, prefix, flattened, css,
                 returned, warnings, error>>

NextCss ==
  \/ CallResolveCSSReferences
  \/ WriteCSS
  \/ CatchError

SpecCss == InitCss /\ [][NextCss]_vars

(***************************************************************************)
(* Claims about resolveCSSReferences and the run that ends with it.  The   *)
(* text handed to the rewriter is kept in value.                           *)
(***************************************************************************)
RewriteReturned == pc \in {"resolved", "thrown"}

ClaimReachesValue(reference) ==
  LET node == ClaimLookup(allTokens, Split(reference, "."), 1)
  IN node.kind = "obj" /\ HasOwn(node, KValue)

\* C6: an occurrence {R} whose R starts with "--" and does not reach a node
\* with a value field is rewritten to var(R), whether or not R names a key of
\* the token store.
C6_CustomPropertyBecomesVar ==
  RewriteReturned =>
    \A r \in CssReferences :
      (/\ value.val = Declaration(Braced(r))
       /\ Len(r) >= 2 /\ SubSeq(r, 1, 2) = <<"-", "-">>
       /\ ~ClaimReachesValue(r))
      => /\ error = "none"
         /\ css = Declaration(<<"v", "a", "r", "(">> \o r \o <<")">>)

\* node[p][c] exists, for the two sub-segments p and c.
ClaimPairNode(p, c) ==
  IF HasOwn(allTokens, p) /\ OwnValue(allTokens, p).kind = "obj"
       /\ HasOwn(OwnValue(allTokens, p), c)
  THEN OwnValue(OwnValue(allTokens, p), c)
  ELSE Broken

\* The places where s splits into p and c with p + "-" + c = s and node[p][c]
\* exists.
ClaimPairSplits(s) ==
  {i \in 1..Len(s) :
     s[i] = "-" /\ ClaimPairNode(SubSeq(s, 1, i - 1), SubSeq(s, i + 1, Len(s))) # Broken}

\* C7: a segment s that is missing at the root is resolved through the dash
\* fallback exactly when it is a pair p-c with node[p][c] present, and then
\* to the value of p.c; any other segment is left unchanged.
C7_DashFallbackOnlyForPairs ==
  RewriteReturned =>
    \A s \in CssReferences :
      (/\ value.val = Declaration(Braced(s))
       /\ ~Includes(s, ".")
       /\ ~HasOwn(allTokens, s))
      => /\ error = "none"
         /\ IF ClaimPairSplits(s) = {} THEN css = value.val
            ELSE \E i \in ClaimPairSplits(s) :
                   LET node == ClaimPairNode(SubSeq(s, 1, i - 1),
                                             SubSeq(s, i + 1, Len(s)))
                   IN ClaimIsLeaf(node) /\ ~IsBracketed(OwnValue(node, KValue))
                        => css = Declaration(ToString(OwnValue(node, KValue)))

\* C9: no text and no token store, cyclic references included, makes the
\* rewriter throw: it returns, the run is not aborted and the css is written.
C9_ResolutionNeverAborts == error = "none" /\ pc # "caught"

\* Worked cases of the specification, section 8.
DashFallbackExample ==
  RewriteReturned /\ value.val = Declaration(Braced(<<"f", "-", "b">>))
    => css = Declaration(LitWhite)

KnownCustomPropertyExample ==
  RewriteReturned /\ value.val = Declaration(Braced(<<"-", "-", "y">>))
    => css = Declaration(<<"v", "a", "r", "(", "-", "-", "y", ")">>)

====
